---- MODULE Spec2Model ----
(***************************************************************************)
(* Model of the chat front end src/src/App.js (component ReactChatbot):    *)
(* the React state input / messages / loading / error, the handler         *)
(* sendMessage with its fetch to POST /research, and the handling of the   *)
(* reply.                                                                  *)
(*                                                                         *)
(* Text is a sequence of characters, each character a one-character        *)
(* string (a code point outside ASCII is named "U+xxxx").  A JavaScript    *)
(* value is a record [t |-> type tag, v |-> payload].                      *)
(***************************************************************************)
EXTENDS Integers, Sequences, FiniteSets, TLC

(***************************************************************************)
(* Bounds of the model.                                                    *)
(***************************************************************************)
\* number of fetch calls explored in the request-lifecycle specification
MaxSubmits == 2
\* number of fetch calls explored in the response-handling specification
MaxReplies == 1
\* largest value of the millisecond clock Date.now()
MaxClock == 1

(***************************************************************************)
(* Text.                                                                   *)
(***************************************************************************)
\* String.prototype.trim removes these from both ends (the ones modelled)
WhiteSpace == {" ", "\n", "\t"}

RECURSIVE TrimStart(_)
TrimStart(s) ==
    IF s = <<>> THEN <<>>
    ELSE IF Head(s) \in WhiteSpace THEN TrimStart(Tail(s)) ELSE s

RECURSIVE TrimEnd(_)
TrimEnd(s) ==
    IF s = <<>> THEN <<>>
    ELSE IF s[Len(s)] \in WhiteSpace THEN TrimEnd(SubSeq(s, 1, Len(s) - 1)) ELSE s

\* the text taken as it is
Trim_notTrimmed(s) == s

\* input.trim()
Trim(s) == TrimEnd(TrimStart(s))

Digit(d) == <<CASE d = 0 -> "0" [] d = 1 -> "1" [] d = 2 -> "2" [] d = 3 -> "3"
                [] d = 4 -> "4" [] d = 5 -> "5" [] d = 6 -> "6" [] d = 7 -> "7"
                [] d = 8 -> "8" [] d = 9 -> "9">>

\* decimal text of a natural number, as template literals, String() and
\* JSON.stringify print it
RECURSIVE NumText(_)
NumText(n) == IF n < 10 THEN Digit(n) ELSE NumText(n \div 10) \o Digit(n % 10)

(***************************************************************************)
(* JavaScript values.                                                      *)
(***************************************************************************)
JUndef == [t |-> "undefined", v |-> 0]
JNull == [t |-> "null", v |-> 0]
JNum(n) == [t |-> "number", v |-> n]
JBool(b) == [t |-> "boolean", v |-> b]
JStr(s) == [t |-> "string", v |-> s]
\* an array: the sequence of its elements
JArr(a) == [t |-> "array", v |-> a]
\* an object: the sequence of its <<key, value>> pairs, keys distinct
JObj(p) == [t |-> "object", v |-> p]

\* a thrown Error object; msg is its .message (JUndef when it has none)
JErr(name, msg) == [t |-> "error", v |-> <<name, msg>>]
ErrMessage(e) == e.v[2]

\* x == null || x === undefined, the test of the ?? operator
Nullish(x) == x.t \in {"null", "undefined"}

\* ToBoolean, the test of && and of {error && ...}
Truthy(x) ==
    CASE x.t \in {"null", "undefined"} -> FALSE
      [] x.t = "boolean" -> x.v
      [] x.t = "number" -> x.v # 0
      [] x.t = "string" -> x.v # <<>>
      [] OTHER -> TRUE

\* property access x.key never faults except on null and undefined
CanRead(x) == ~Nullish(x)

\* x.key for a value that can be read: an own property of an object, and
\* undefined for the keys used here on a primitive or an array
Get(x, key) ==
    IF x.t = "object" /\ \E i \in 1..Len(x.v) : x.v[i][1] = key
    THEN x.v[CHOOSE i \in 1..Len(x.v) : x.v[i][1] = key][2]
    ELSE JUndef

\* x === "text" for a string literal
StrictEq(x, text) == x.t = "string" /\ x.v = text

ObjectObjectText == <<"[", "o", "b", "j", "e", "c", "t", " ", "O", "b", "j", "e", "c", "t", "]">>

\* String(x)
RECURSIVE ToStringText(_)
RECURSIVE JoinText(_)
JoinText(a) ==
    IF a = <<>> THEN <<>>
    ELSE (IF Nullish(Head(a)) THEN <<>> ELSE ToStringText(Head(a)))
         \o (IF Len(a) > 1 THEN <<",">> \o JoinText(Tail(a)) ELSE <<>>)
ToStringText(x) ==
    CASE x.t = "undefined" -> <<"u", "n", "d", "e", "f", "i", "n", "e", "d">>
      [] x.t = "null" -> <<"n", "u", "l", "l">>
      [] x.t = "boolean" -> IF x.v THEN <<"t", "r", "u", "e">> ELSE <<"f", "a", "l", "s", "e">>
      [] x.t = "number" -> NumText(x.v)
      [] x.t = "string" -> x.v
      [] x.t = "array" -> JoinText(x.v)
      [] OTHER -> ObjectObjectText

RECURSIVE QuoteChars(_)
QuoteChars(s) ==
    IF s = <<>> THEN <<>>
    ELSE (IF Head(s) \in {"\"", "\\"} THEN <<"\\", Head(s)>> ELSE <<Head(s)>>)
         \o QuoteChars(Tail(s))

\* the JSON text of a string: quoted, with quote and backslash escaped
QuoteText(s) == <<"\"">> \o QuoteChars(s) \o <<"\"">>

\* JSON.stringify(x) for a value decoded from JSON
RECURSIVE Stringify(_)
RECURSIVE StringifyElems(_)
RECURSIVE StringifyPairs(_)
StringifyElems(a) ==
    IF a = <<>> THEN <<>>
    ELSE Stringify(Head(a)) \o (IF Len(a) > 1 THEN <<",">> \o StringifyElems(Tail(a)) ELSE <<>>)
StringifyPairs(p) ==
    IF p = <<>> THEN <<>>
    ELSE QuoteText(Head(p)[1]) \o <<":">> \o Stringify(Head(p)[2])
         \o (IF Len(p) > 1 THEN <<",">> \o StringifyPairs(Tail(p)) ELSE <<>>)
Stringify(x) ==
    CASE x.t = "null" -> <<"n", "u", "l", "l">>
      [] x.t = "boolean" -> IF x.v THEN <<"t", "r", "u", "e">> ELSE <<"f", "a", "l", "s", "e">>
      [] x.t = "number" -> NumText(x.v)
      [] x.t = "string" -> QuoteText(x.v)
      [] x.t = "array" -> <<"[">> \o StringifyElems(x.v) \o <<"]">>
      [] OTHER -> <<"{">> \o StringifyPairs(x.v) \o <<"}">>

(***************************************************************************)
(* The texts of the program.                                               *)
(***************************************************************************)
\* "Write a topic for research."
WelcomeText == <<"W", "r", "i", "t", "e", " ", "a", " ", "t", "o", "p", "i", "c", " ", "f", "o", "r", " ", "r", "e", "s", "e", "a", "r", "c", "h", ".">>

\* "Sorry <U+00E2><U+20AC><U+201D> I couldn't get a reply from the server."
FallbackText == <<"S", "o", "r", "r", "y", " ", "U+00E2", "U+20AC", "U+201D", " ", "I", " ", "c", "o", "u", "l", "d", "n", "'", "t", " ", "g", "e", "t", " ", "a", " ", "r", "e", "p", "l", "y", " ", "f", "r", "o", "m", " ", "t", "h", "e", " ", "s", "e", "r", "v", "e", "r", ".">>

\* "Unknown error"
UnknownErrorText == <<"U", "n", "k", "n", "o", "w", "n", " ", "e", "r", "r", "o", "r">>

\* `Backend error: ${resp.status} ${text}`
BackendErrorText(status, text) ==
    <<"B", "a", "c", "k", "e", "n", "d", " ", "e", "r", "r", "o", "r", ":", " ">>
    \o NumText(status) \o <<" ">> \o text

KeyReply == <<"r", "e", "p", "l", "y">>
KeyMessages == <<"m", "e", "s", "s", "a", "g", "e", "s">>
KeyRole == <<"r", "o", "l", "e">>
KeyContent == <<"c", "o", "n", "t", "e", "n", "t">>
KeyText == <<"t", "e", "x", "t">>
UserText == <<"u", "s", "e", "r">>
SystemText == <<"s", "y", "s", "t", "e", "m">>

\* the TypeError the engine throws for null.key (the wording of V8)
NullReadError(key) ==
    JErr("TypeError",
         JStr(<<"C", "a", "n", "n", "o", "t", " ", "r", "e", "a", "d", " ", "p", "r", "o", "p", "e", "r", "t", "i", "e", "s", " ", "o", "f", " ", "n", "u", "l", "l", " ", "(", "r", "e", "a", "d", "i", "n", "g", " ", "'">>
              \o key \o <<"'", ")">>))

\* the SyntaxError of resp.json() on a body that is no JSON text (the
\* wording of V8 for an empty body and for a bad first character)
JsonSyntaxError(text) ==
    JErr("SyntaxError",
         JStr(IF text = <<>>
              THEN <<"U", "n", "e", "x", "p", "e", "c", "t", "e", "d", " ", "e", "n", "d", " ", "o", "f", " ", "J", "S", "O", "N", " ", "i", "n", "p", "u", "t">>
              ELSE <<"U", "n", "e", "x", "p", "e", "c", "t", "e", "d", " ", "t", "o", "k", "e", "n", " ">>
                   \o <<Head(text)>>
                   \o <<" ", "i", "n", " ", "J", "S", "O", "N", " ", "a", "t", " ", "p", "o", "s", "i", "t", "i", "o", "n", " ", "0">>))

(***************************************************************************)
(* The handling of a decoded 2xx body (the if / else-if chain of           *)
(* sendMessage).  The result is the sequence of addMessage calls made, as  *)
(* <<role, content>> pairs in call order, and the exception thrown out of  *)
(* the chain (JUndef when none is thrown).                                 *)
(***************************************************************************)
NoThrow(calls) == [adds |-> calls, thrown |-> JUndef]

\* the role test without its "system" arm
EntryRole_noSystem(msg) ==
    IF StrictEq(Get(msg, KeyRole), UserText) THEN "user" ELSE "assistant"

\* msg.role === "user" ? "user" : msg.role === "system" ? "system" : "assistant"
EntryRole(msg) ==
    IF StrictEq(Get(msg, KeyRole), UserText) THEN "user"
    ELSE IF StrictEq(Get(msg, KeyRole), SystemText) THEN "system"
    ELSE "assistant"

\* String(msg.content ?? msg.text ?? "")
EntryContent(msg) ==
    ToStringText(IF ~Nullish(Get(msg, KeyContent)) THEN Get(msg, KeyContent)
                 ELSE IF ~Nullish(Get(msg, KeyText)) THEN Get(msg, KeyText)
                 ELSE JStr(<<>>))

\* data.messages.forEach((msg) => { ... addMessage(role, content) })
RECURSIVE ForEachEntry(_, _)
ForEachEntry(entries, calls) ==
    IF entries = <<>> THEN NoThrow(calls)
    ELSE IF ~CanRead(Head(entries))
         THEN [adds |-> calls, thrown |-> NullReadError(KeyRole)]
         ELSE ForEachEntry(Tail(entries),
                           Append(calls, <<EntryRole(Head(entries)), EntryContent(Head(entries))>>))

HandleData(data) ==
    IF ~CanRead(data) THEN [adds |-> <<>>, thrown |-> NullReadError(KeyReply)]
    ELSE IF Truthy(Get(data, KeyReply)) /\ Get(data, KeyReply).t = "string"
         THEN NoThrow(<<<<"assistant", Get(data, KeyReply).v>>>>)
    ELSE IF Get(data, KeyMessages).t = "array"
         THEN ForEachEntry(Get(data, KeyMessages).v, <<>>)
    ELSE IF data.t = "string"
         THEN NoThrow(<<<<"assistant", data.v>>>>)
    ELSE NoThrow(<<<<"assistant", Stringify(data)>>>>)

(***************************************************************************)
(* The inputs of the model.                                                *)
(***************************************************************************)
\* what the user may have typed into the textarea
Inputs == {<<" ", "\n">>, <<" ", "h", "i", "\t">>}

\* the value of Math.random().toString(36).slice(2, 8) explored by the
\* request-lifecycle and response-handling specifications
CoreSuffixes == {<<"k", "3", "f", "9", "x", "2">>}

\* the values of Math.random().toString(36).slice(2, 8) explored by the
\* message-id specification
RandSuffixes == {<<"k", "3", "f", "9", "x", "2">>, <<"0", "z">>}

\* keys of a keydown event
Keys == {"Enter", "a"}

\* an entry of a messages array
Entry(role, content) == JObj(<<<<KeyRole, role>>, <<KeyContent, content>>>>)

\* decoded JSON bodies the backend may send
CoreData ==
    { JNull,
      JObj(<<<<KeyReply, JStr(<<"y", "o">>)>>>>),
      JObj(<<<<KeyMessages, JArr(<<>>)>>>>),
      JObj(<<<<KeyMessages, JArr(<<Entry(JStr(UserText), JStr(<<"h", "i">>)), JNull,
                                   Entry(JStr(<<"b", "o", "t">>), JNum(7))>>)>>>>) }

MoreData ==
    { JObj(<<<<KeyMessages, JArr(<<Entry(JStr(UserText), JStr(<<"h", "i">>)),
                                   JObj(<<<<KeyRole, JStr(SystemText)>>, <<KeyText, JStr(<<"n", "o", "t", "e">>)>>>>)>>)>>>>),
      JNum(0), JNum(42), JBool(TRUE), JStr(<<>>), JStr(<<"o", "k">>),
      JArr(<<>>), JArr(<<JNum(1), JNull>>),
      JObj(<<>>),
      JObj(<<<<<<"f", "o", "o">>, JNum(1)>>>>),
      JObj(<<<<KeyReply, JStr(<<>>)>>>>),
      JObj(<<<<KeyReply, JNum(5)>>>>),
      JObj(<<<<KeyReply, JStr(<<"r">>)>>, <<KeyMessages, JArr(<<Entry(JStr(UserText), JStr(<<"h", "i">>))>>)>>>>),
      JObj(<<<<KeyReply, JNull>>, <<KeyMessages, JArr(<<JStr(<<"s">>)>>)>>>>),
      JObj(<<<<KeyMessages, JStr(<<"x">>)>>>>),
      JObj(<<<<KeyMessages, JArr(<<JNull>>)>>>>),
      JObj(<<<<KeyMessages, JArr(<<JNum(3), JArr(<<>>),
                                   JObj(<<<<KeyContent, JNull>>, <<KeyText, JBool(FALSE)>>>>)>>)>>>>),
      JObj(<<<<KeyMessages, JArr(<<JObj(<<<<KeyRole, JStr(<<"U", "s", "e", "r">>)>>,
                                          <<KeyContent, JObj(<<>>)>>>>),
                                   JObj(<<<<KeyContent, JArr(<<JNum(1), JNull, JStr(<<"\"">>)>>)>>>>)>>)>>>>) }

AllData == CoreData \cup MoreData

\* body texts that are no JSON text
RawTexts == {<<>>, <<"o", "o", "p", "s">>}

\* a response body: JSON text (given by the value it decodes to) or not
JsonBody(d) == [json |-> TRUE, data |-> d, raw |-> <<>>]
RawBody(txt) == [json |-> FALSE, data |-> JUndef, raw |-> txt]

\* values fetch may reject with
FetchErrors ==
    { JErr("TypeError", JStr(<<"F", "a", "i", "l", "e", "d", " ", "t", "o", " ", "f", "e", "t", "c", "h">>)),
      JErr("Error", JUndef) }

\* how a fetch may settle: rejected, or fulfilled with a response whose
\* body is then delivered in full
Rejected(e) == [kind |-> "reject", err |-> e, status |-> 0, body |-> RawBody(<<>>)]
Response(st, b) == [kind |-> "response", err |-> JUndef, status |-> st, body |-> b]
NoOutcome == [kind |-> "none", err |-> JUndef, status |-> 0, body |-> RawBody(<<>>)]

\* a body FastAPI sends with an error status
DetailBody == JsonBody(JObj(<<<<<<"d", "e", "t", "a", "i", "l">>, JStr(<<"n", "o">>)>>>>))

\* the outcomes explored by the request-lifecycle specification
CoreOutcomes ==
    { Rejected(JErr("TypeError", JStr(<<"F", "a", "i", "l", "e", "d", " ", "t", "o", " ", "f", "e", "t", "c", "h">>))),
      Response(299, RawBody(<<"o", "o", "p", "s">>)),
      Response(500, DetailBody) }
    \cup { Response(200, JsonBody(d)) : d \in CoreData }

\* the outcomes explored by the response-handling specification
AllOutcomes ==
    { Rejected(e) : e \in FetchErrors }
    \cup { Response(200, JsonBody(d)) : d \in AllData }
    \cup { Response(200, RawBody(<<>>)),
           Response(299, RawBody(<<"o", "o", "p", "s">>)),
           Response(299, DetailBody) }
    \cup { Response(st, b) : st \in {300, 500},
                             b \in {DetailBody} \cup {RawBody(txt) : txt \in RawTexts} }

(***************************************************************************)
(* The state.                                                              *)
(***************************************************************************)
VARIABLES
    input,      \* useState(""): the text of the textarea
    messages,   \* useState([]): the conversation, [id, role, content] records
    loading,    \* useState(false)
    error,      \* useState(null): JNull or a string value
    mounted,    \* whether the mount effect has run
    now,        \* the value Date.now() gave when it was last read
    inflight,   \* the fetch calls not yet settled
    dispatched, \* the number of fetch calls made so far
    last        \* the last run of sendMessage or of its continuation

vars == <<input, messages, loading, error, mounted, now, inflight, dispatched, last>>

\* `m-${Date.now()}`
WelcomeId(t) == <<"m", "-">> \o NumText(t)

\* `m-${Date.now()}-${Math.random().toString(36).slice(2, 8)}`
MessageId(t, suffix) == <<"m", "-">> \o NumText(t) \o <<"-">> \o suffix

\* addMessage setting the list as the mount effect does, without the
\* messages it held
addMessage_replace(m, role, content, t, suffix) ==
    <<[id |-> MessageId(t, suffix), role |-> role, content |-> content]>>

\* addMessage(role, content): setMessages((m) => [...m, {id, role, content}])
addMessage(m, role, content, t, suffix) ==
    Append(m, [id |-> MessageId(t, suffix), role |-> role, content |-> content])

\* a run of addMessage calls within one millisecond, the k-th with the
\* k-th suffix
RECURSIVE addMessages(_, _, _, _)
addMessages(m, calls, t, suffixes) ==
    IF calls = <<>> THEN m
    ELSE addMessages(addMessage(m, Head(calls)[1], Head(calls)[2], t, Head(suffixes)),
                     Tail(calls), t, Tail(suffixes))

\* what Date.now() may give after it gave t: the clock does not go back
Clock(t) == {t} \cup {u \in {t + 1} : u <= MaxClock}

\* JSON.stringify({ query: trimmed })
RequestBody(trimmed) == Stringify(JObj(<<<<<<"q", "u", "e", "r", "y">>, JStr(trimmed)>>>>))

\* the fetch call of sendMessage; sentAt is the number of messages appended
\* to the conversation by the time fetch is called
Request(id, trimmed, m) ==
    [id |-> id, method |-> "POST", path |-> "/research",
     body |-> RequestBody(trimmed), sentAt |-> Len(m)]

NoRequest == [id |-> 0, method |-> "", path |-> "", body |-> <<>>, sentAt |-> 0]

\* the record of a run: which code ran (op), whether sendMessage went past
\* its early return (hit), the request it made or continued (req), how
\* the fetch settled (out) and the size of the conversation before (n)
Ran(op, hit, req, out) ==
    [op |-> op, hit |-> hit, req |-> req, out |-> out, n |-> Len(messages)]

Init ==
    /\ input = <<>>
    /\ messages = <<>>
    /\ loading = FALSE
    /\ error = JNull
    /\ mounted = FALSE
    /\ now = 0
    /\ inflight = {}
    /\ dispatched = 0
    /\ last = [op |-> "none", hit |-> FALSE, req |-> NoRequest, out |-> NoOutcome, n |-> 0]

\* the mount effect: setMessages([{ id, role: "assistant", content }])
Mount ==
    /\ ~mounted
    /\ mounted' = TRUE
    /\ now' \in Clock(now)
    /\ messages' = <<[id |-> WelcomeId(now'), role |-> "assistant", content |-> WelcomeText]>>
    /\ UNCHANGED <<input, loading, error, inflight, dispatched, last>>

\* onChange of the textarea: setInput(e.target.value)
onChange(value) ==
    /\ mounted
    /\ input' = value
    /\ UNCHANGED <<messages, loading, error, mounted, now, inflight, dispatched, last>>

\* sendMessage calling fetch before addMessage
sendMessage_fetchFirst(limit, random) ==
    LET trimmed == Trim(input) IN
    IF trimmed = <<>>
    THEN /\ last' = Ran("sendMessage", FALSE, NoRequest, NoOutcome)
         /\ UNCHANGED <<input, messages, loading, error, mounted, now, inflight, dispatched>>
    ELSE /\ dispatched < limit
         /\ error' = JNull
         /\ inflight' = inflight \cup {Request(dispatched + 1, trimmed, messages)}
         /\ now' \in Clock(now)
         /\ \E suffix \in random : messages' = addMessage(messages, "user", trimmed, now', suffix)
         /\ input' = <<>>
         /\ loading' = TRUE
         /\ dispatched' = dispatched + 1
         /\ last' = Ran("sendMessage", TRUE, Request(dispatched + 1, trimmed, messages), NoOutcome)
         /\ UNCHANGED mounted

\* sendMessage without its setError(null)
sendMessage_keepError(limit, random) ==
    LET trimmed == Trim(input) IN
    IF trimmed = <<>>
    THEN /\ last' = Ran("sendMessage", FALSE, NoRequest, NoOutcome)
         /\ UNCHANGED <<input, messages, loading, error, mounted, now, inflight, dispatched>>
    ELSE /\ dispatched < limit
         /\ now' \in Clock(now)
         /\ \E suffix \in random :
              /\ messages' = addMessage(messages, "user", trimmed, now', suffix)
              /\ inflight' = inflight \cup {Request(dispatched + 1, trimmed, messages')}
         /\ input' = <<>>
         /\ loading' = TRUE
         /\ dispatched' = dispatched + 1
         /\ last' = Ran("sendMessage", TRUE, Request(dispatched + 1, trimmed, messages'), NoOutcome)
         /\ UNCHANGED <<mounted, error>>

\* sendMessage up to its first await; limit caps the number of fetch calls
sendMessage(limit, random) ==
    LET trimmed == Trim(input) IN
    IF trimmed = <<>>
    THEN /\ last' = Ran("sendMessage", FALSE, NoRequest, NoOutcome)
         /\ UNCHANGED <<input, messages, loading, error, mounted, now, inflight, dispatched>>
    ELSE /\ dispatched < limit
         /\ error' = JNull
         /\ now' \in Clock(now)
         /\ \E suffix \in random :
              /\ messages' = addMessage(messages, "user", trimmed, now', suffix)
              /\ inflight' = inflight \cup {Request(dispatched + 1, trimmed, messages')}
         /\ input' = <<>>
         /\ loading' = TRUE
         /\ dispatched' = dispatched + 1
         /\ last' = Ran("sendMessage", TRUE, Request(dispatched + 1, trimmed, messages'), NoOutcome)
         /\ UNCHANGED mounted

\* handleKeyDown(e)
handleKeyDown(key, shiftKey, limit, random) ==
    /\ mounted
    /\ IF key = "Enter" /\ ~shiftKey
       THEN sendMessage(limit, random)
       ELSE UNCHANGED vars

\* onSubmit of the form, raised by the Send button, which is disabled
\* while loading
onSubmit(limit, random) ==
    /\ mounted
    /\ ~loading
    /\ sendMessage(limit, random)

\* the range test off by one at its upper end
Ok_upTo300(status) == 200 <= status /\ status <= 300

\* resp.ok
Ok(status) == 200 <= status /\ status <= 299

\* resp.text()
BodyText(body) == IF body.json THEN Stringify(body.data) ELSE body.raw

\* the try block of sendMessage from the settling of fetch on: the
\* addMessage calls it makes and the exception it throws
TryBlock(out) ==
    IF out.kind = "reject" THEN [adds |-> <<>>, thrown |-> out.err]
    ELSE IF ~Ok(out.status)
         THEN [adds |-> <<>>,
               thrown |-> JErr("Error", JStr(BackendErrorText(out.status, BodyText(out.body))))]
    ELSE IF ~out.body.json
         THEN [adds |-> <<>>, thrown |-> JsonSyntaxError(out.body.raw)]
    ELSE HandleData(out.body.data)

\* err?.message ?? "Unknown error"
ErrorText(err) ==
    IF Nullish(err) \/ Nullish(ErrMessage(err)) THEN JStr(UnknownErrorText) ELSE ErrMessage(err)

\* a catch block that reports the error and appends nothing
CatchAdds_noFallback(res) == res.adds

\* the catch block: the addMessage calls of try, then of catch
CatchAdds(res) ==
    IF res.thrown.t = "undefined" THEN res.adds
    ELSE Append(res.adds, <<"assistant", FallbackText>>)

\* the error state after try / catch
CatchError(res) == IF res.thrown.t = "undefined" THEN error ELSE ErrorText(res.thrown)

\* setLoading(false) only at the end of the try block
Finally_endOfTry(res) == IF res.thrown.t = "undefined" THEN FALSE ELSE loading

\* the finally block: setLoading(false)
Finally(res) == FALSE

\* a continuation that makes the request once more when it failed
Settle_retry(r, out, random) ==
    LET res == TryBlock(out)
        calls == CatchAdds(res)
    IN /\ r \in inflight
       /\ inflight' = IF res.thrown.t = "undefined" THEN inflight \ {r}
                      ELSE (inflight \ {r}) \cup {[r EXCEPT !.id = dispatched + 1]}
       /\ dispatched' = IF res.thrown.t = "undefined" THEN dispatched ELSE dispatched + 1
       /\ now' \in (IF calls = <<>> THEN {now} ELSE Clock(now))
       /\ \E suffixes \in [1..Len(calls) -> random] :
            messages' = addMessages(messages, calls, now', suffixes)
       /\ error' = CatchError(res)
       /\ loading' = Finally(res)
       /\ last' = Ran("settle", TRUE, r, out)
       /\ UNCHANGED <<input, mounted>>

\* the continuation of sendMessage for request r once its fetch settles
\* with outcome out
Settle(r, out, random) ==
    LET res == TryBlock(out)
        calls == CatchAdds(res)
    IN /\ r \in inflight
       /\ inflight' = inflight \ {r}
       /\ now' \in (IF calls = <<>> THEN {now} ELSE Clock(now))
       /\ \E suffixes \in [1..Len(calls) -> random] :
            messages' = addMessages(messages, calls, now', suffixes)
       /\ error' = CatchError(res)
       /\ loading' = Finally(res)
       /\ last' = Ran("settle", TRUE, r, out)
       /\ UNCHANGED <<input, mounted, dispatched>>

Step(limit, outcomes, random) ==
    \/ Mount
    \/ \E value \in Inputs : onChange(value)
    \/ \E key \in Keys, shiftKey \in BOOLEAN : handleKeyDown(key, shiftKey, limit, random)
    \/ onSubmit(limit, random)
    \/ \E r \in inflight, out \in outcomes : Settle(r, out, random)

\* the request lifecycle: several submissions, a few outcomes each
Next == Step(MaxSubmits, CoreOutcomes, CoreSuffixes)

Spec == Init /\ [][Next]_vars

\* the handling of the response: few submissions, every outcome
NextReply == Step(MaxReplies, AllOutcomes, CoreSuffixes)

ReplySpec == Init /\ [][NextReply]_vars

\* the message ids: few submissions, a few outcomes, two random suffixes
NextId == Step(MaxReplies, CoreOutcomes, RandSuffixes)

IdSpec == Init /\ [][NextId]_vars

(***************************************************************************)
(* Properties.                                                             *)
(***************************************************************************)
\* a step in which sendMessage ran
SendRan == last' # last /\ last'.op = "sendMessage"

\* the text holds nothing but white space (or nothing at all)
OnlyWhiteSpace(s) == \A i \in 1..Len(s) : s[i] \in WhiteSpace

\* the last run was the continuation of sendMessage after its fetch settled
Settled == last.op = "settle"

\* ... with a 2xx response
Settled2xx == Settled /\ last.out.kind = "response" /\ last.out.status \in 200..299

\* ... with a response of another status
SettledNon2xx == Settled /\ last.out.kind = "response" /\ last.out.status \notin 200..299

\* the messages appended by the last run
Appended == SubSeq(messages, last.n + 1, Len(messages))

IsFallback(m) == m.role = "assistant" /\ m.content = FallbackText

\* C1: a sendMessage invoked with non-empty text while an earlier request
\* has not resolved is ignored: it appends no message and dispatches no
\* second request
C1_SecondSubmitIgnored ==
    [][(SendRan /\ ~OnlyWhiteSpace(input) /\ inflight # {})
         => (messages' = messages /\ inflight' = inflight /\ dispatched' = dispatched)]_vars

\* C2: loading is true if and only if exactly one request is in flight
C2_LoadingIffOneInFlight == loading <=> (Cardinality(inflight) = 1)

\* C3: once the request of an accepted submission has resolved, on
\* whichever branch, loading has been set to false
C3_LoadingClearedOnEveryBranch == Settled => loading = FALSE

\* the request resolved with a 2xx body on which the reply handling threw
C3_Witness ==
    /\ Settled2xx /\ last.out.body.json
    /\ error.t = "string"
    /\ loading = FALSE

\* ... with a 2xx response whose body decodes as JSON
SettledJson == Settled2xx /\ last.out.body.json

\* C4: processing a JSON-decodable body of a 2xx response raises no fault:
\* lastError stays unset and no fallback assistant message is appended
C4_DecodableBodyRaisesNoFault ==
    SettledJson =>
        /\ error.t = "null"
        /\ \A i \in 1..Len(Appended) : ~IsFallback(Appended[i])

\* C5: for every JSON-decodable body of a 2xx response at least one message
\* is appended to the conversation
C5_AtLeastOneMessage == SettledJson => Len(messages) > last.n

\* C6: sendMessage invoked with input that is empty or only white space
\* changes none of messages, loading, error and input, and dispatches
\* no request
C6_BlankInputIsNoOp ==
    [][(SendRan /\ OnlyWhiteSpace(input))
         => UNCHANGED <<messages, loading, error, input, inflight, dispatched>>]_vars

\* sendMessage returned early on white space left in the textarea, with an
\* error on display and a request in flight
C6_Witness ==
    /\ last.op = "sendMessage" /\ ~last.hit
    /\ input # <<>> /\ OnlyWhiteSpace(input)
    /\ error.t = "string"
    /\ inflight # {}

\* t is s without its leading and trailing white space
IsTrimOf(t, s) ==
    \E i \in 1..Len(s), j \in 1..Len(s) :
        /\ i <= j
        /\ t = SubSeq(s, i, j)
        /\ s[i] \notin WhiteSpace /\ s[j] \notin WhiteSpace
        /\ \A k \in 1..Len(s) : (k < i \/ k > j) => s[k] \in WhiteSpace

\* C7: for input whose trimmed text is non-empty, sendMessage appends
\* exactly one message, of role user with the trimmed text as content, and
\* the append comes before the request of the submission is dispatched
C7_OneUserMessageBeforeDispatch ==
    [][(SendRan /\ ~OnlyWhiteSpace(input))
         => /\ Len(messages') = Len(messages) + 1
            /\ SubSeq(messages', 1, Len(messages)) = messages
            /\ messages'[Len(messages')].role = "user"
            /\ IsTrimOf(messages'[Len(messages')].content, input)
            /\ \E r \in inflight' :
                 /\ inflight' = inflight \cup {r}
                 /\ r \notin inflight
                 /\ r.sentAt = Len(messages')]_vars

\* sendMessage accepted text that had white space around it
C7_Witness ==
    /\ last.op = "sendMessage" /\ last.hit
    /\ Len(messages) = last.n + 1
    /\ messages[Len(messages)].content = <<"h", "i">>
    /\ last.req \in inflight

\* C8: after a request resolved with a non-2xx status loading is false,
\* lastError is non-empty and is made of the status code and the body
\* text, and the one message appended is the fallback assistant message
C8_Non2xxHandled ==
    SettledNon2xx =>
        /\ loading = FALSE
        /\ error.t = "string" /\ error.v # <<>>
        /\ error.v = BackendErrorText(last.out.status, BodyText(last.out.body))
        /\ Len(Appended) = 1
        /\ IsFallback(Appended[1])

\* a request resolved with status 300
C8_Witness == SettledNon2xx /\ last.out.status = 300 /\ Len(messages) = last.n + 1

\* the last run settled on a transport-level fault: fetch rejected, or the
\* 2xx body was no JSON text
SettledFault ==
    /\ Settled
    /\ \/ last.out.kind = "reject"
       \/ Settled2xx /\ ~last.out.body.json

\* the description of the fault of the last run
FaultDescription ==
    IF last.out.kind = "reject"
    THEN IF ErrMessage(last.out.err).t = "string" THEN ErrMessage(last.out.err)
         ELSE JStr(UnknownErrorText)
    ELSE ErrMessage(JsonSyntaxError(last.out.body.raw))

\* C9: a transport-level fault is treated as a non-2xx response is:
\* lastError is the description of the fault and the one message appended
\* is the same fallback assistant message
C9_TransportFaultHandled ==
    SettledFault =>
        /\ error = FaultDescription
        /\ Len(Appended) = 1
        /\ IsFallback(Appended[1])

\* a 2xx body failed to decode and left its fallback message
C9_Witness ==
    /\ SettledFault /\ last.out.kind = "response"
    /\ error.t = "string"
    /\ Len(messages) = last.n + 1

\* the messages array of the body of the last run
LastEntries == Get(last.out.body.data, KeyMessages).v

\* the body of the last run is an object with an array field messages and
\* no string field reply
SettledMessagesArray ==
    /\ SettledJson
    /\ last.out.body.data.t = "object"
    /\ Get(last.out.body.data, KeyReply).t # "string"
    /\ Get(last.out.body.data, KeyMessages).t = "array"

\* C10: after a 2xx response the messages produced are appended in order,
\* contiguously and after the user message of the same submission; for a
\* messages array the appended messages follow the array one to one
C10_AppendedInArrayOrder ==
    /\ SettledJson =>
        /\ last.req.sentAt <= last.n
        /\ messages[last.req.sentAt].role = "user"
    /\ SettledMessagesArray =>
        /\ Len(Appended) = Len(LastEntries)
        /\ \A i \in 1..Len(LastEntries) :
             /\ i <= Len(Appended)
             /\ Appended[i].role = EntryRole(LastEntries[i])
             /\ Appended[i].content = EntryContent(LastEntries[i])

\* the decoded body of the last run
LastData == last.out.body.data

\* the body of the last run is an object with a string field reply
SettledStringReply ==
    /\ SettledJson
    /\ LastData.t = "object"
    /\ Get(LastData, KeyReply).t = "string"

\* C11: whenever the decoded body has a field reply whose value is a
\* string (any string, the empty one too, and also with a messages array
\* beside it), exactly one assistant message whose content is that string
\* is emitted and nothing else
C11_StringReplyWins ==
    SettledStringReply =>
        /\ Len(Appended) = 1
        /\ Appended[1].role = "assistant"
        /\ Appended[1].content = Get(LastData, KeyReply).v

\* the value of a field of an entry, JUndef when the entry is no object or
\* has no such field
Field(entry, key) ==
    IF entry.t = "object" /\ \E i \in 1..Len(entry.v) : entry.v[i][1] = key
    THEN (entry.v[CHOOSE i \in 1..Len(entry.v) : entry.v[i][1] = key])[2]
    ELSE JUndef

\* the role rule 2 asks for
RuleRole(entry) ==
    CASE Field(entry, KeyRole).t = "string" /\ Field(entry, KeyRole).v = UserText -> "user"
      [] Field(entry, KeyRole).t = "string" /\ Field(entry, KeyRole).v = SystemText -> "system"
      [] OTHER -> "assistant"

\* the value rule 2 takes the content from: content if present, else text
\* if present, else the empty string (null counts as not present)
RuleContentValue(entry) ==
    CASE Field(entry, KeyContent).t \notin {"undefined", "null"} -> Field(entry, KeyContent)
      [] Field(entry, KeyContent).t \in {"undefined", "null"}
           /\ Field(entry, KeyText).t \notin {"undefined", "null"} -> Field(entry, KeyText)
      [] OTHER -> JStr(<<>>)

\* C12: for a body with an array field messages and no string reply each
\* entry yields one message, of role user for entry.role "user", system for
\* "system" and assistant for any other or missing role, with content
\* entry.content if present, else entry.text if present, else the empty
\* string, coerced to text
C12_EntryYieldsOneMessage ==
    SettledMessagesArray =>
        /\ Len(Appended) = Len(LastEntries)
        /\ \A i \in 1..Len(LastEntries) :
             i <= Len(Appended) =>
                /\ Appended[i].role = RuleRole(LastEntries[i])
                /\ Appended[i].content = ToStringText(RuleContentValue(LastEntries[i]))

\* {"messages":[{"role":"user","content":"hi"},{"role":"system","text":"note"}]}
ExampleBody ==
    JObj(<<<<KeyMessages,
             JArr(<<JObj(<<<<KeyRole, JStr(UserText)>>, <<KeyContent, JStr(<<"h", "i">>)>>>>),
                    JObj(<<<<KeyRole, JStr(SystemText)>>, <<KeyText, JStr(<<"n", "o", "t", "e">>)>>>>)>>)>>>>)

\* the last run handled a 2xx response with the example body
SettledExample == SettledJson /\ LastData = ExampleBody

\* the last run appended exactly two messages, the first of role user with
\* content "hi", the second of the given role with content "note"
ExampleYields(role) ==
    /\ Len(Appended) = 2
    /\ Appended[1].role = "user" /\ Appended[1].content = <<"h", "i">>
    /\ Appended[2].role = role /\ Appended[2].content = <<"n", "o", "t", "e">>

\* C13 as stated: the example body yields exactly two messages, user "hi"
\* and then assistant "note"
C13_ExampleSecondAssistant == SettledExample => ExampleYields("assistant")

\* C13 as amended: the example body yields exactly two messages, user "hi"
\* and then system "note"
C13_ExampleSecondSystem == SettledExample => ExampleYields("system")

\* the example body was handled and left its two messages
C13_Witness == SettledExample /\ Len(messages) = last.n + 2 /\ error.t = "null"

\* s is a prefix of t
IsPrefix(s, t) == Len(s) <= Len(t) /\ SubSeq(t, 1, Len(s)) = s

\* C14: the conversation is append-only: across every transition (the
\* seeding of the greeting, a submit, a resolution by success or failure)
\* the message list before is a prefix of the list after
C14_AppendOnly == [][IsPrefix(messages, messages')]_vars

\* a failed request left its fallback message behind the greeting, the
\* user message and the messages of an earlier reply
C14_Witness ==
    /\ Settled /\ error.t = "string"
    /\ Len(messages) >= 5
    /\ messages[1].content = WelcomeText
    /\ IsFallback(messages[Len(messages)])

\* C15: no two messages of the conversation have the same id, messages
\* appended within the same clock tick included
C15_UniqueIds ==
    \A i \in 1..Len(messages), j \in 1..Len(messages) :
        i # j => messages[i].id # messages[j].id

\* a step in which sendMessage ran on text that is not blank
Accepted == SendRan /\ ~OnlyWhiteSpace(input)

\* the last run ended in a failure its request was not made again for
FailedLast ==
    /\ Settled
    /\ \/ last.out.kind = "reject"
       \/ last.out.kind = "response" /\ last.out.status \notin 200..299
       \/ last.out.kind = "response" /\ ~last.out.body.json

\* C16: the number of requests dispatched equals the number of accepted
\* submissions: each accepted sendMessage call issues exactly one POST, and
\* nothing else issues one, not the continuation after a non-2xx response
\* or a transport fault either
C16_OneRequestPerSubmission ==
    [][IF Accepted
       THEN /\ dispatched' = dispatched + 1
            /\ Cardinality(inflight' \ inflight) = 1
            /\ \A r \in inflight' \ inflight : r.method = "POST" /\ r.id = dispatched'
       ELSE /\ dispatched' = dispatched
            /\ inflight' \subseteq inflight]_vars

\* two submissions were accepted, the second failed, and two requests
\* were dispatched in all, none of them still in flight
C16_Witness ==
    /\ FailedLast
    /\ last.req.id = 2
    /\ dispatched = 2
    /\ inflight = {}

\* C17: after a failed request (non-2xx or transport fault) has resolved
\* loading is false, and the next sendMessage with non-empty text is
\* accepted: it clears lastError, appends its user message and dispatches a
\* new request
C17_ResubmittableAfterFailure ==
    [][FailedLast =>
         /\ loading = FALSE
         /\ Accepted =>
              /\ error'.t = "null"
              /\ loading' = TRUE
              /\ Len(messages') = Len(messages) + 1
              /\ IsPrefix(messages, messages')
              /\ messages'[Len(messages')].role = "user"
              /\ IsTrimOf(messages'[Len(messages')].content, input)
              /\ dispatched' = dispatched + 1
              /\ \E r \in inflight' : r \notin inflight /\ r.id = dispatched']_vars

\* a submission was accepted right after a failure: its user message
\* follows the fallback message, the error is cleared and its request is
\* the one in flight
C17_Witness ==
    /\ last.op = "sendMessage" /\ last.hit
    /\ last.req.id = 2
    /\ IsFallback(messages[last.n])
    /\ messages[Len(messages)].role = "user"
    /\ error.t = "null"
    /\ loading
    /\ inflight = {last.req}


\* C18: the messages appended when a submission's request resolves come
\* after that submission's user message and before the user message of any
\* later submission: a request that appends on resolving is the latest one
\* dispatched, and its user message is already in the conversation
C18_RepliesFollowTheirQuestion ==
    [][\A r \in inflight :
         (r \notin inflight' /\ Len(messages') > Len(messages)) =>
            /\ r.sentAt \in 1..Len(messages)
            /\ messages[r.sentAt].role = "user"
            /\ dispatched = r.id]_vars

\* the last run was the continuation of a request and it went through the
\* catch block: the fallback message is the last one it appended
EndedInFailure ==
    /\ Settled
    /\ Len(Appended) > 0
    /\ IsFallback(Appended[Len(Appended)])

\* C19: when the continuation of a request has run and no request is in
\* flight, the error is set if and only if that continuation ended in the
\* failure branch; a successful resolution leaves no earlier error shown
C19_ErrorIffLastFailed ==
    (Settled /\ inflight = {}) => (error.t = "string" <=> EndedInFailure)

====
